---- MODULE Spec2Model ----
(***************************************************************************)
(* Distributed (DDP) training coordination of EEG-GAN:                     *)
(*   helpers/ddp_training.py  (DDPTrainer, run, _setup, _setup_training,   *)
(*                             _ddp_training)                              *)
(*   gan_training_main.py     (main: the spawn of the workers)             *)
(* One process per rank.  The collective primitives of torch.distributed   *)
(* (init_process_group, all_reduce, the gradient all-reduce of DDP) are    *)
(* modelled by what they do: a call blocks its rank until every rank of    *)
(* the group has made the matching call.                                   *)
(***************************************************************************)
EXTENDS Integers, Sequences, FiniteSets, Bags, TLC

\* ------------------------------------------------------------------ bounds
MaxWorldSize == 3
MaxSteps == 2
\* world_size * num_steps, the batches processed by all ranks together
MaxWork == 6
\* world sizes of the specification of the metric reduction alone
MaxReduceWorld == 7

\* --------------------------------------------------------------- float32
\* torch.float32 values (ddp_training.py:44): a float is m * 2^e with m = 0
\* or 2^23 <= |m| < 2^24.  Every operation rounds to nearest, ties to even.
\* Exponent overflow and underflow are outside the values used here.
MantBits == 24

Pow2(n) == 2 ^ n

Abs(i) == IF i < 0 THEN -i ELSE i

Sign(i) == IF i < 0 THEN -1 ELSE 1

FZero == [m |-> 0, e |-> 0]

\* The float32 nearest to N * 2^e, for an integer 0 <= N < 2^31.
RoundMagOf(N, e) ==
    IF N = 0 THEN FZero
    ELSE IF N < Pow2(MantBits - 1)
    THEN LET j == CHOOSE i \in 1..(MantBits - 1) :
                     /\ N * Pow2(i) >= Pow2(MantBits - 1)
                     /\ N * Pow2(i) < Pow2(MantBits)
         IN  [m |-> N * Pow2(j), e |-> e - j]
    ELSE LET k == CHOOSE i \in 0..7 :
                     /\ (i = 7 \/ N < Pow2(MantBits + i))
                     /\ (i = 0 \/ N >= Pow2(MantBits + i - 1))
             q == N \div Pow2(k)
             r == N % Pow2(k)
             up == \/ 2 * r > Pow2(k)
                   \/ (2 * r = Pow2(k) /\ q % 2 = 1)
             q1 == IF up THEN q + 1 ELSE q
         IN  IF q1 = Pow2(MantBits)
             THEN [m |-> Pow2(MantBits - 1), e |-> e + k + 1]
             ELSE [m |-> q1, e |-> e + k]

\* (the arguments are evaluated once)
RoundMag(N, e) == CHOOSE f \in {RoundMagOf(n, x) : n \in {N}, x \in {e}} : TRUE

FRound(N, e) ==
    CHOOSE g \in { [m |-> Sign(n) * f.m, e |-> f.e] :
                    n \in {N}, f \in {RoundMag(Abs(N), e)} } : TRUE

\* float32(i) for a small integer i
FromInt(i) == FRound(i, 0)

\* a + b in float32 (x and y: the operands, evaluated once)
FAdd(a, b) ==
    CHOOSE f \in
        { IF x.m = 0 THEN y
          ELSE IF y.m = 0 THEN x
          ELSE LET e0 == IF x.e < y.e THEN x.e ELSE y.e
               IN  FRound(x.m * Pow2(x.e - e0) + y.m * Pow2(y.e - e0), e0) :
          x \in {a}, y \in {b} } : TRUE

\* a / n in float32, n a positive integer (reduce_tensor /= self.world_size)
FDivInt(a, n) ==
    CHOOSE f \in
        { LET num == Abs(x.m) * Pow2(6)
              q == num \div n
              sticky == IF num % n = 0 THEN 0 ELSE 1
          IN  FRound(Sign(x.m) * (2 * q + sticky), x.e - 7) :
          x \in {a} } : TRUE

FNeg(a) == [m |-> -a.m, e |-> a.e]

\* a * b in float32.  The product of two 24-bit mantissas is formed from their
\* 12-bit halves as hi * 2^24 + lo; the bits of lo below the rounding guard
\* are kept as one sticky bit.
FMul(a, b) ==
    CHOOSE f \in
        { IF x.m = 0 \/ y.m = 0 THEN FZero
          ELSE LET xh == Abs(x.m) \div Pow2(12)
                   xl == Abs(x.m) % Pow2(12)
                   yh == Abs(y.m) \div Pow2(12)
                   yl == Abs(y.m) % Pow2(12)
                   mid == xh * yl + xl * yh
                   low == (mid % Pow2(12)) * Pow2(12) + xl * yl
                   lo == low % Pow2(24)
                   hi == xh * yh + mid \div Pow2(12) + low \div Pow2(24)
                   sticky == IF lo % Pow2(18) = 0 THEN 0 ELSE 1
               IN  FRound(Sign(x.m) * Sign(y.m)
                            * (hi * Pow2(7) + (lo \div Pow2(18)) * 2 + sticky),
                          x.e + y.e + 17) :
          x \in {a}, y \in {b} } : TRUE

\* `reduce_tensor /= self.world_size`: reduce_tensor is on self.device, and a
\* worker gets as far as print_log only on a CUDA device (generator.to(rank)
\* with an integer and DDP(..., device_ids=[rank]) of lines 67-70 need one).
\* There a tensor divided by a Python number is multiplied by the float32
\* reciprocal of the number.
FMulRecip(a, n) == FMul(a, FDivInt(FromInt(1), n))

\* ------------------------------------------------------------------ state
VARIABLES
    world_size,    \* main: world_size, nprocs of mp.spawn and opt['world_size']
    num_steps,     \* batches of the training loop, the same schedule on every rank
    use_checkpoint,\* training.use_checkpoint
    pc,            \* pc[r]: where worker r is in run()
    lifecycle,     \* lifecycle[r]: the lifecycle states worker r has entered, in order
    err,           \* err[r]: the error that ended worker r, or "none"
    joinWaiting,   \* ranks blocked inside dist.init_process_group
    groupFormed,   \* all world_size ranks have rendezvoused
    pg,            \* pg[r]: worker r's process-group handle
    destroyCount,  \* destroyCount[r]: calls of dist.destroy_process_group by r
    trainer,       \* trainer[r]: worker r's copy of the DDPTrainer
    batch,         \* batch[r]: the batch worker r is processing
    stepsDone,     \* stepsDone[r]: optimizer steps worker r has completed
    gradSent,      \* gradSent[r]: gradients r handed to the gradient all-reduce
    lossSent,      \* lossSent[r]: reduce_tensor values r handed to dist.all_reduce
    logged,        \* logged[r]: the (d_loss, g_loss) r passed to super().print_log
    logLines,      \* progress lines printed, as [rank, event]
    printLogCalls, \* printLogCalls[r]: calls of print_log by r
    collectives,   \* collectives[r]: collective calls issued by r, in order
    writeCount,    \* writeCount[<<kind, event>>]: leader-only writes performed
    writers,       \* ranks that performed a leader-only write
    finalFile,     \* the end-of-run checkpoint file
    master_port,   \* find_free_port() of main, evaluated once for mp.spawn
    ddp_backend,   \* default_args['ddp_backend'] of main
    joinArgs,      \* per rank: the arguments of its init_process_group calls
    storeOps,      \* the checkpoint reads and writes made so far
    trainedOn,     \* per rank: what _ddp_training was called with
    gradReduced,   \* gradReduced[k]: the sum the k-th gradient all-reduce delivers
    lossReduced,   \* lossReduced[k]: the sum the all_reduce of the k-th print_log delivers
    completed      \* collective calls of the group that have completed, all ranks in them

vars == <<world_size, num_steps, use_checkpoint, pc, lifecycle, err, joinWaiting,
          groupFormed, pg, destroyCount, trainer, batch, stepsDone, gradSent,
          lossSent, logged, logLines, printLogCalls, collectives, writeCount,
          writers, finalFile, master_port, ddp_backend, joinArgs, storeOps,
          trainedOn, gradReduced, lossReduced, completed>>

Ranks == 0..(world_size - 1)

\* ------------------------------------------------------ what the ranks train on
\* A batch decides the local gradient and the local losses of one step.
Batches ==
    { [grad |-> FromInt(1), d_loss |-> FromInt(1), g_loss |-> FromInt(2)],
      [grad |-> FromInt(3), d_loss |-> FromInt(3), g_loss |-> FromInt(4)] }

NoBatch == [grad |-> FZero, d_loss |-> FZero, g_loss |-> FZero]

\* Parameters of a freshly built model and of the checkpoint file.
InitialParams == FromInt(0)

CheckpointParams == FromInt(5)

\* Optimizer state (Adam moments, step counts) of freshly built optimizers
\* and of the checkpoint file.
FreshOptState == 0

CheckpointOptState == 7

\* opt of gan_training_main.main, as far as the workers read it
Opt == [world_size |-> world_size]

\* What find_free_port() and default_args['ddp_backend'] can be: the launches
\* that are tried.
Launches ==
    { [master_port |-> 29500, ddp_backend |-> "nccl"],
      [master_port |-> 29501, ddp_backend |-> "gloo"] }

\* args=(world_size, find_free_port(), ddp_backend, trainer, opt) of mp.spawn
SpawnArgs == <<world_size, master_port, ddp_backend, "trainer", "opt">>

\* run(rank, world_size, master_port, backend, training, dataset): mp.spawn
\* calls run(i, *args) in the i-th of its nprocs processes.
RunArgsOwnPort(rank) ==
    [rank |-> rank,
     world_size |-> SpawnArgs[1],
     master_port |-> SpawnArgs[2] + rank,
     backend |-> SpawnArgs[3],
     training |-> SpawnArgs[4],
     dataset |-> SpawnArgs[5]]

RunArgs(rank) ==
    [rank |-> rank,
     world_size |-> SpawnArgs[1],
     master_port |-> SpawnArgs[2],
     backend |-> SpawnArgs[3],
     training |-> SpawnArgs[4],
     dataset |-> SpawnArgs[5]]

\* run lines 87-88 and _ddp_training line 119: training.training(dataset) is
\* called on run's parameter `training` with run's parameter `dataset`.
DdpTrainingArgs(a) == [training |-> a.training, dataset |-> a.dataset]

NotStarted == [training |-> "none", dataset |-> "none"]

\* _setup: dist.init_process_group(backend, rank=rank, world_size=world_size)
\* on MASTER_PORT = str(master_port)
JoinArgs(a) ==
    [rank |-> a.rank,
     world_size |-> a.world_size,
     master_port |-> a.master_port,
     backend |-> a.backend]

\* The two models of the trainer, and how many DDP wrappers each one is in.
Models == {"generator", "discriminator"}

Unwrapped == [m \in Models |-> 0]

WrappedOnce == [m \in Models |-> 1]

IsWrapped(t) == \A m \in Models : t.wrapped[m] > 0

\* DDPTrainer.__init__
TrainerInitNoWorldSize(opt) ==
    [world_size |-> 1,
     rank |-> -1,
     device |-> -1,
     wrapped |-> Unwrapped,
     params |-> InitialParams,
     opt_state |-> FreshOptState,
     opt_bound |-> "plain",
     extracted |-> -1,
     ddp_steps |-> <<>>]

TrainerInit(opt) ==
    [world_size |-> IF "world_size" \in DOMAIN opt THEN opt.world_size ELSE 1,
     rank |-> -1,
     device |-> -1,
     wrapped |-> Unwrapped,
     params |-> InitialParams,
     opt_state |-> FreshOptState,
     opt_bound |-> "plain",
     extracted |-> -1,
     ddp_steps |-> <<>>]

\* trainer.load_checkpoint(path): parameters and optimizer state of the file
\* replace those of the trainer
load_checkpoint(t) ==
    [t EXCEPT !.params = CheckpointParams, !.opt_state = CheckpointOptState]

\* One operation on the checkpoint store: who made it (-1 is the parent
\* process), whether the model it was given is a DDP wrapper, whether the
\* caller had a live process group, its training steps so far, and, for a
\* load, which load of the caller it is; for a write, the ranks whose resume
\* load had completed by then.
StoreOp(op, rank, isWrapped, joined, steps, nth, resumed) ==
    [op |-> op, rank |-> rank, wrapped |-> isWrapped, joined |-> joined,
     steps |-> steps, nth |-> nth, resumed |-> resumed]

\* main: `if default_args['load_checkpoint']: trainer.load_checkpoint(...)`
\* before mp.spawn
ParentLoad(t, flag) == IF flag THEN load_checkpoint(t) ELSE t

ParentReads(flag) ==
    IF flag THEN {StoreOp("load", -1, FALSE, FALSE, 0, 1, {})} ELSE {}

\* ---------------------------------------------------------------- helpers
\* LeaderGate: the `self.rank == 0` / `training.rank == 0` tests
IsLeaderAll(rank) == TRUE

IsLeader(rank) == rank = 0

\* torch DDP(...) around the generator and the discriminator
WrapNot(t, model) == t

Wrap(t, model) == [t EXCEPT !.wrapped[model] = @ + 1]

\* elementwise float32 tensor operations
TDivInt(t, n) ==
    CHOOSE s \in { [i \in 1..Len(x) |-> FDivInt(x[i], n)] : x \in {t} } : TRUE

\* dist.all_reduce(op=SUM) over the k-th contribution of every rank.  The
\* call does not fix the order of the float32 additions: the backend chooses
\* it (a ring that starts at any rank, in either direction, a tree, pairwise
\* halving and doubling), element by element, and float32 addition is not
\* associative.  Every way of adding the contributions of the ranks two at a
\* time is allowed.
\* The values the ranks contribute to element i, each with its number of ranks.
Contributions(sent, k, i) ==
    [v \in {sent[r][k][i] : r \in Ranks} |->
        Cardinality({r \in Ranks : sent[r][k][i] = v})]

\* One addition: two of the partial sums of b are replaced by their sum.
AddTwo(b) ==
    UNION { { ((b (-) SetToBag({x})) (-) SetToBag({y})) (+) SetToBag({FAdd(x, y)}) :
              y \in BagToSet(b (-) SetToBag({x})) } :
            x \in BagToSet(b) }

\* The values left when the n partial sums of each bag are added up.
RECURSIVE SumsOf(_, _)
SumsOf(bags, n) ==
    IF n <= 1
    THEN UNION {BagToSet(b) : b \in bags}
    ELSE CHOOSE v \in { SumsOf(nb, n - 1) :
                        nb \in {UNION {AddTwo(b) : b \in bags}} } : TRUE

ElementSums(sent, k, i) == SumsOf({Contributions(sent, k, i)}, world_size)

\* The tensors the collective can deliver; it delivers the same one to every
\* rank (each element is reduced once and then distributed).
AllReduceSums(sent, k) ==
    CHOOSE T \in
        { {t \in [DOMAIN E -> UNION {E[i] : i \in DOMAIN E}] :
              \A i \in DOMAIN E : t[i] \in E[i]} :
          E \in {[i \in 1..Len(sent[0][k]) |-> ElementSums(sent, k, i)]} } : TRUE

\* The result of the k-th collective: chosen when the first rank returns from
\* it, and read from reduced by the ranks that return later.
Delivered(sent, reduced, k) ==
    IF Len(reduced) >= k THEN {reduced[k]} ELSE AllReduceSums(sent, k)

Deliver(reduced, k, v) == IF Len(reduced) >= k THEN reduced ELSE Append(reduced, v)

AllContributed(sent, k) == \A s \in Ranks : Len(sent[s]) >= k

\* reduce_tensor /= self.world_size
AverageNoDivide(t, n) == t

Average(t, n) ==
    CHOOSE s \in { [i \in 1..Len(x) |-> FMulRecip(x[i], n)] : x \in {t} } : TRUE

\* torch.tensor([d_loss, g_loss], dtype=torch.float32, device=self.device)
ReduceTensor(b) == <<b.d_loss, b.g_loss>>

\* print_log calls dist.all_reduce on every rank, whatever its rank
PrintLogReducesLeaderOnly(rank) == rank = 0

PrintLogReduces(rank) == TRUE

Fail(r, e) ==
    /\ pc' = [pc EXCEPT ![r] = "FAILED"]
    /\ err' = [err EXCEPT ![r] = e]

Enter(r, st) == lifecycle' = [lifecycle EXCEPT ![r] = Append(@, st)]

\* ------------------------------------------------------------------- Init
\* mp.spawn(run, args=(world_size, find_free_port(), ddp_backend, trainer, opt),
\*          nprocs=world_size): every worker starts run() with a copy of trainer.
Init ==
    /\ world_size \in 1..MaxWorldSize
    /\ num_steps \in 0..MaxSteps
    /\ world_size * num_steps <= MaxWork
    /\ use_checkpoint \in BOOLEAN
    /\ pc = [r \in Ranks |-> "INIT"]
    /\ lifecycle = [r \in Ranks |-> <<"INIT">>]
    /\ err = [r \in Ranks |-> "none"]
    /\ joinWaiting = {}
    /\ groupFormed = FALSE
    /\ pg = [r \in Ranks |-> "none"]
    /\ destroyCount = [r \in Ranks |-> 0]
    /\ trainer = [r \in Ranks |-> ParentLoad(TrainerInit(Opt), use_checkpoint)]
    /\ batch = [r \in Ranks |-> NoBatch]
    /\ stepsDone = [r \in Ranks |-> 0]
    /\ gradSent = [r \in Ranks |-> <<>>]
    /\ lossSent = [r \in Ranks |-> <<>>]
    /\ logged = [r \in Ranks |-> <<>>]
    /\ logLines = {}
    /\ printLogCalls = [r \in Ranks |-> 0]
    /\ collectives = [r \in Ranks |-> <<>>]
    /\ writeCount = [w \in {"save", "manage", "final"} \X (0..(MaxSteps + 1)) |-> 0]
    /\ writers = {}
    /\ finalFile = "absent"
    /\ \E l \in Launches : master_port = l.master_port /\ ddp_backend = l.ddp_backend
    /\ joinArgs = [r \in Ranks |-> <<>>]
    /\ storeOps = ParentReads(use_checkpoint)
    /\ trainedOn = [r \in Ranks |-> NotStarted]
    /\ gradReduced = <<>>
    /\ lossReduced = <<>>
    /\ completed = 0

\* ------------------------------------------------------------------ _setup
\* run line 86 -> _setup -> dist.init_process_group(..., timeout=30 s): the
\* call blocks until all world_size ranks have made it.
JoinCall(r) ==
    /\ pc[r] = "INIT"
    /\ pc' = [pc EXCEPT ![r] = "JOINING"]
    /\ joinWaiting' = joinWaiting \cup {r}
    /\ groupFormed' = (joinWaiting' = Ranks)
    /\ joinArgs' = [joinArgs EXCEPT ![r] = Append(@, JoinArgs(RunArgs(r)))]
    /\ UNCHANGED <<world_size, num_steps, use_checkpoint, lifecycle, err, pg,
                   destroyCount, trainer, batch, stepsDone, gradSent, lossSent,
                   logged, logLines, printLogCalls, collectives, writeCount,
                   writers, finalFile>>
    /\ UNCHANGED <<master_port, ddp_backend, storeOps>>
    /\ UNCHANGED trainedOn
    /\ UNCHANGED <<gradReduced, lossReduced>>
    /\ UNCHANGED completed

JoinReadyAlone(r) == TRUE

JoinReady(r) == groupFormed

JoinReturn(r) ==
    /\ pc[r] = "JOINING"
    /\ JoinReady(r)
    /\ pc' = [pc EXCEPT ![r] = "JOINED"]
    /\ pg' = [pg EXCEPT ![r] = "live"]
    /\ Enter(r, "JOINED")
    /\ UNCHANGED <<world_size, num_steps, use_checkpoint, err, joinWaiting,
                   groupFormed, destroyCount, trainer, batch, stepsDone, gradSent,
                   lossSent, logged, logLines, printLogCalls, collectives,
                   writeCount, writers, finalFile>>
    /\ UNCHANGED <<master_port, ddp_backend, joinArgs, storeOps>>
    /\ UNCHANGED trainedOn
    /\ UNCHANGED <<gradReduced, lossReduced>>
    /\ UNCHANGED completed

\* The 30 s elapse before the last rank arrives: init_process_group raises and
\* the error leaves run().
JoinTimeout(r) ==
    /\ pc[r] = "JOINING"
    /\ ~groupFormed
    /\ Fail(r, "RendezvousTimeout")
    /\ joinWaiting' = joinWaiting \ {r}
    /\ UNCHANGED <<world_size, num_steps, use_checkpoint, lifecycle, groupFormed,
                   pg, destroyCount, trainer, batch, stepsDone, gradSent, lossSent,
                   logged, logLines, printLogCalls, collectives, writeCount,
                   writers, finalFile>>
    /\ UNCHANGED <<master_port, ddp_backend, joinArgs, storeOps>>
    /\ UNCHANGED trainedOn
    /\ UNCHANGED <<gradReduced, lossReduced>>
    /\ UNCHANGED completed

\* --------------------------------------------------------- _setup_training
\* DDPTrainer.set_device
set_deviceZero(t, rank) == [t EXCEPT !.rank = 0, !.device = 0]

set_device(t, rank) == [t EXCEPT !.rank = rank, !.device = rank]

\* The statements of DDPTrainer.set_ddp_framework, each noted in ddp_steps.
\* self.generator.to(self.rank); self.discriminator.to(self.rank)
ToDevice(t) == [t EXCEPT !.ddp_steps = Append(@, "to_device")]

\* self.generator = DDP(self.generator, device_ids=[self.rank])
WrapGenerator(t) ==
    [Wrap(t, "generator") EXCEPT !.ddp_steps = Append(@, "wrap_generator")]

\* self.discriminator = DDP(self.discriminator, device_ids=[self.rank])
WrapDiscriminator(t) ==
    [Wrap(t, "discriminator") EXCEPT !.ddp_steps = Append(@, "wrap_discriminator")]

\* g_opt_state = self.generator_optimizer.state_dict(), and d_opt_state
ExtractState(t) ==
    [t EXCEPT !.extracted = t.opt_state,
              !.ddp_steps = Append(@, "extract_state")]

\* torch.optim.Adam(self.generator.parameters(), ...): fresh optimizers on
\* the parameters of the models as they are now
NewOptimizers(t) ==
    [t EXCEPT !.opt_state = FreshOptState,
              !.opt_bound = IF IsWrapped(t) THEN "wrapped" ELSE "plain",
              !.ddp_steps = Append(@, "new_optimizers")]

\* self.generator_optimizer.load_state_dict(g_opt_state), and d_opt_state
LoadState(t) ==
    [t EXCEPT !.opt_state = t.extracted,
              !.ddp_steps = Append(@, "load_state")]

\* Lines 70-82 of set_ddp_framework, from the return of the DDP constructor
\* of the discriminator on: these run once every rank of the group has
\* entered that constructor.
WrapAndRebindNoReload(t) ==
    NewOptimizers(ExtractState(WrapDiscriminator(t)))

WrapAndRebindNewFirst(t) ==
    LoadState(ExtractState(NewOptimizers(WrapDiscriminator(t))))

WrapAndRebind(t) ==
    LoadState(NewOptimizers(ExtractState(WrapDiscriminator(t))))

\* DDPTrainer.set_ddp_framework
set_ddp_framework(t) == WrapAndRebind(WrapGenerator(ToDevice(t)))

\* `if training.use_checkpoint:` of _setup_training
ResumeAlways(flag) == TRUE

ResumeNever(flag) == FALSE

ResumeRequested(flag) == flag

\* Ranks whose resume load has completed.
Resumed == {s \in Ranks : \E i \in 1..Len(lifecycle[s]) : lifecycle[s][i] = "RESUMED"}

\* The load of _setup_training line 112 as the store sees it: it is applied to
\* self.generator / self.discriminator of the trainer as they are at the call.
WorkerLoad(t, r) ==
    StoreOp("load", r, IsWrapped(t), pg[r] = "live", stepsDone[r],
            Cardinality({o \in storeOps : o.op = "load" /\ o.rank = r}) + 1, {})

\* Neither _setup_training nor run catches what load_checkpoint raises.
LoadErrorSwallowed(r) == TRUE

LoadErrorCaught(r) == FALSE

\* torch's DDP constructor is a synchronisation point of the group: parameter
\* shapes are verified across the ranks and the state of rank 0 is broadcast,
\* so a rank stays in it until every rank has entered it.  set_ddp_framework
\* calls it twice, for the generator (line 69) and for the discriminator (line
\* 70): rank s has entered the n-th of the two.
DdpEntered(s, n) == Len(collectives[s]) >= n

\* The places of run() where a worker is inside a collective call of the
\* group: a DDP constructor, the gradient all-reduce of the backward pass and
\* dist.all_reduce of print_log.
Blocking == {"WRAPPING", "BACKWARD", "ALL_REDUCE"}

\* Rank s is inside the collective call that ends the sequence of calls cs.
InCall(s, cs) == pc[s] \in Blocking /\ collectives[s] = cs

\* Rank r makes the call that ends cs.  The call completes when every rank of
\* the group is inside it; a rank that an error has taken out of it is not, and
\* the call then never completes.  The calls of the group complete in order.
Entering(r, cs) ==
    IF \A s \in Ranks \ {r} : InCall(s, cs) THEN Len(cs) ELSE completed

\* The collective call rank r is inside has completed.
CallComplete(r) == completed >= Len(collectives[r])

\* _setup_training up to the first DDP constructor: set_device, then
\* generator.to(rank) / discriminator.to(rank), which raise when the device does
\* not exist (the error leaves run()), then DDP(self.generator, ...) is entered.
SetupDevice(r) ==
    /\ pc[r] = "JOINED"
    /\ LET bound == set_device(trainer[r], r)
       IN  \/ /\ Fail(r, "DeviceUnavailable")
              /\ trainer' = [trainer EXCEPT ![r] = bound]
              /\ UNCHANGED <<collectives, completed>>
           \/ /\ trainer' = [trainer EXCEPT ![r] = ToDevice(bound)]
              /\ collectives' = [collectives EXCEPT ![r] = Append(@, "ddp_sync")]
              /\ completed' = Entering(r, collectives'[r])
              /\ pc' = [pc EXCEPT ![r] = "WRAPPING"]
              /\ UNCHANGED err
    /\ Enter(r, "DEVICE_BOUND")
    /\ UNCHANGED <<world_size, num_steps, use_checkpoint, joinWaiting, groupFormed,
                   pg, destroyCount, batch, stepsDone, gradSent, lossSent, logged,
                   logLines, printLogCalls, writeCount, writers, finalFile>>
    /\ UNCHANGED <<master_port, ddp_backend, joinArgs, storeOps>>
    /\ UNCHANGED trainedOn
    /\ UNCHANGED <<gradReduced, lossReduced>>

\* Line 69 returns, every rank being in it: the generator is wrapped, and
\* DDP(self.discriminator, ...) of line 70 is entered.
SetupGenerator(r) ==
    /\ pc[r] = "WRAPPING"
    /\ Len(collectives[r]) = 1
    /\ \A s \in Ranks : DdpEntered(s, 1)
    /\ CallComplete(r)
    /\ trainer' = [trainer EXCEPT ![r] = WrapGenerator(@)]
    /\ collectives' = [collectives EXCEPT ![r] = Append(@, "ddp_sync")]
    /\ completed' = Entering(r, collectives'[r])
    /\ UNCHANGED <<world_size, num_steps, use_checkpoint, pc, lifecycle, err,
                   joinWaiting, groupFormed, pg, destroyCount, batch, stepsDone,
                   gradSent, lossSent, logged, logLines, printLogCalls, writeCount,
                   writers, finalFile>>
    /\ UNCHANGED <<master_port, ddp_backend, joinArgs, storeOps>>
    /\ UNCHANGED trainedOn
    /\ UNCHANGED <<gradReduced, lossReduced>>

\* The rest of _setup_training, then training.training(dataset) is entered:
\* line 70 returns once all ranks are in it, and the steps after it are local
\* to the worker: the optimizers are rebuilt, load_checkpoint is called when
\* requested (a missing or unreadable file raises).  An error leaves run().
SetupTraining(r) ==
    /\ pc[r] = "WRAPPING"
    /\ Len(collectives[r]) = 2
    /\ \A s \in Ranks : DdpEntered(s, 2)
    /\ CallComplete(r)
    /\ LET wrapped == WrapAndRebind(trainer[r])
           read == WorkerLoad(wrapped, r)
       IN  \/ /\ ResumeRequested(use_checkpoint)
              /\ trainer' = [trainer EXCEPT ![r] = wrapped]
              /\ storeOps' = storeOps \cup {read}
              /\ err' = [err EXCEPT ![r] = "CheckpointNotFound"]
              /\ IF LoadErrorCaught(r)
                 THEN /\ pc' = [pc EXCEPT ![r] = "TRAINING"]
                      /\ lifecycle' = [lifecycle EXCEPT
                                         ![r] = @ \o <<"REPLICATED", "TRAINING">>]
                 ELSE /\ pc' = [pc EXCEPT ![r] = "FAILED"]
                      /\ lifecycle' = [lifecycle EXCEPT
                                         ![r] = @ \o <<"REPLICATED">>]
           \/ /\ ResumeRequested(use_checkpoint)
              /\ trainer' = [trainer EXCEPT ![r] = load_checkpoint(wrapped)]
              /\ storeOps' = storeOps \cup {read}
              /\ lifecycle' = [lifecycle EXCEPT
                                 ![r] = @ \o <<"REPLICATED", "RESUMED", "TRAINING">>]
              /\ pc' = [pc EXCEPT ![r] = "TRAINING"]
              /\ UNCHANGED err
           \/ /\ ~ResumeRequested(use_checkpoint)
              /\ trainer' = [trainer EXCEPT ![r] = wrapped]
              /\ lifecycle' = [lifecycle EXCEPT
                                 ![r] = @ \o <<"REPLICATED", "TRAINING">>]
              /\ pc' = [pc EXCEPT ![r] = "TRAINING"]
              /\ UNCHANGED <<err, storeOps>>
    /\ UNCHANGED <<world_size, num_steps, use_checkpoint, joinWaiting, groupFormed,
                   pg, destroyCount, batch, stepsDone, gradSent, lossSent, logged,
                   logLines, printLogCalls, collectives, writeCount, writers,
                   finalFile>>
    /\ UNCHANGED <<master_port, ddp_backend, joinArgs>>
    /\ trainedOn' = IF pc'[r] = "TRAINING"
                    THEN [trainedOn EXCEPT ![r] = DdpTrainingArgs(RunArgs(r))]
                    ELSE trainedOn
    /\ UNCHANGED <<gradReduced, lossReduced>>
    /\ UNCHANGED completed

\* ------------------------------------------------------- the training loop
\* One optimizer step on parameters p with gradient tensor g.
OptimizerStep(p, g) == FAdd(p, FNeg(g[1]))

\* Loop head of training.training(dataset): the next batch is taken and its
\* backward pass starts.  With a DDP-wrapped model the backward pass hands the
\* local gradient to the gradient all-reduce.
TrainBatch(r) ==
    /\ pc[r] = "TRAINING"
    /\ stepsDone[r] < num_steps
    /\ \E b \in Batches :
          /\ batch' = [batch EXCEPT ![r] = b]
          /\ IF IsWrapped(trainer[r])
             THEN /\ gradSent' = [gradSent EXCEPT ![r] = Append(@, <<b.grad>>)]
                  /\ collectives' = [collectives EXCEPT ![r] = Append(@, "grad")]
                  /\ completed' = Entering(r, collectives'[r])
                  /\ pc' = [pc EXCEPT ![r] = "BACKWARD"]
                  /\ UNCHANGED <<trainer, stepsDone>>
             ELSE /\ trainer' = [trainer EXCEPT
                                   ![r].params = OptimizerStep(@, <<b.grad>>)]
                  /\ stepsDone' = [stepsDone EXCEPT ![r] = @ + 1]
                  /\ pc' = [pc EXCEPT ![r] = "PRINT_LOG"]
                  /\ UNCHANGED <<gradSent, collectives, completed>>
    /\ UNCHANGED <<world_size, num_steps, use_checkpoint, lifecycle, err,
                   joinWaiting, groupFormed, pg, destroyCount, lossSent, logged,
                   logLines, printLogCalls, writeCount, writers, finalFile>>
    /\ UNCHANGED <<master_port, ddp_backend, joinArgs, storeOps>>
    /\ UNCHANGED trainedOn
    /\ UNCHANGED <<gradReduced, lossReduced>>

\* An error raised inside the training loop leaves run().
TrainError(r) ==
    /\ pc[r] = "TRAINING"
    /\ stepsDone[r] < num_steps
    /\ Fail(r, "TrainingError")
    /\ UNCHANGED <<world_size, num_steps, use_checkpoint, lifecycle, joinWaiting,
                   groupFormed, pg, destroyCount, trainer, batch, stepsDone,
                   gradSent, lossSent, logged, logLines, printLogCalls,
                   collectives, writeCount, writers, finalFile>>
    /\ UNCHANGED <<master_port, ddp_backend, joinArgs, storeOps>>
    /\ UNCHANGED trainedOn
    /\ UNCHANGED <<gradReduced, lossReduced>>
    /\ UNCHANGED completed

\* The gradient all-reduce completes once every rank has contributed: each
\* rank applies the gradient averaged over all ranks.
GradSync(r) ==
    /\ pc[r] = "BACKWARD"
    /\ AllContributed(gradSent, Len(gradSent[r]))
    /\ CallComplete(r)
    /\ \E sum \in Delivered(gradSent, gradReduced, Len(gradSent[r])) :
          /\ gradReduced' = Deliver(gradReduced, Len(gradSent[r]), sum)
          /\ LET g == TDivInt(sum, world_size)
             IN  trainer' = [trainer EXCEPT ![r].params = OptimizerStep(@, g)]
    /\ stepsDone' = [stepsDone EXCEPT ![r] = @ + 1]
    /\ pc' = [pc EXCEPT ![r] = "PRINT_LOG"]
    /\ UNCHANGED <<world_size, num_steps, use_checkpoint, lifecycle, err,
                   joinWaiting, groupFormed, pg, destroyCount, batch, gradSent,
                   lossSent, logged, logLines, printLogCalls, collectives,
                   writeCount, writers, finalFile>>
    /\ UNCHANGED <<master_port, ddp_backend, joinArgs, storeOps>>
    /\ UNCHANGED trainedOn
    /\ UNCHANGED lossReduced
    /\ UNCHANGED completed

\* A leader-only durable write of the base trainer, counted per logical event.
Written(wc, kind, k) == [wc EXCEPT ![<<kind, k>>] = @ + 1]

\* DDPTrainer.save_checkpoint: `if self.rank == 0:` super().save_checkpoint
save_checkpoint(wc, t, k, kind) ==
    IF IsLeader(t.rank) THEN Written(wc, kind, k) ELSE wc

\* DDPTrainer.manage_checkpoints: `if self.rank == 0:` super().manage_checkpoints
manage_checkpoints(wc, t, k) ==
    IF IsLeader(t.rank) THEN Written(wc, "manage", k) ELSE wc

\* generator=self.generator.module, discriminator=self.discriminator.module:
\* the model inside the DDP wrapper
Module(t) ==
    [t EXCEPT !.wrapped = [m \in Models |-> IF @[m] > 0 THEN @[m] - 1 ELSE 0]]

\* A write of the leader as the store sees it.
LeaderWrite(t, r, kind) ==
    StoreOp(kind, r, IsWrapped(Module(t)), pg[r] = "live", stepsDone[r], 0, Resumed)

\* The checkpoint hook of the loop: after the step's log every rank calls
\* save_checkpoint and manage_checkpoints, and the loop goes on.
CheckpointHook(r) ==
    /\ writeCount' = manage_checkpoints(
                         save_checkpoint(writeCount, trainer[r], stepsDone[r], "save"),
                         trainer[r], stepsDone[r])
    /\ writers' = IF writeCount' # writeCount THEN writers \cup {r} ELSE writers
    /\ storeOps' = storeOps \cup
                     {LeaderWrite(trainer[r], r, kind) :
                        kind \in {k \in {"save", "manage"} :
                                    writeCount'[<<k, stepsDone[r]>>]
                                        # writeCount[<<k, stepsDone[r]>>]}}
    /\ pc' = [pc EXCEPT ![r] = "TRAINING"]

\* trainer.Trainer.print_log: prints one progress line
BasePrintLog(r, k) == logLines' = logLines \cup {[rank |-> r, event |-> k]}

\* DDPTrainer.print_log up to dist.all_reduce: the packed pair is handed to
\* the all-reduce, which blocks until every rank has contributed.
PrintLogCall(r) ==
    /\ pc[r] = "PRINT_LOG"
    /\ printLogCalls' = [printLogCalls EXCEPT ![r] = @ + 1]
    /\ IF PrintLogReduces(trainer[r].rank)
       THEN /\ lossSent' = [lossSent EXCEPT ![r] = Append(@, ReduceTensor(batch[r]))]
            /\ collectives' = [collectives EXCEPT ![r] = Append(@, "metric")]
            /\ completed' = Entering(r, collectives'[r])
            /\ pc' = [pc EXCEPT ![r] = "ALL_REDUCE"]
            /\ UNCHANGED <<logged, logLines, writeCount, writers, storeOps>>
       ELSE /\ logged' = [logged EXCEPT ![r] = Append(@, ReduceTensor(batch[r]))]
            /\ BasePrintLog(r, printLogCalls'[r])
            /\ CheckpointHook(r)
            /\ UNCHANGED <<lossSent, collectives, completed>>
    /\ UNCHANGED <<world_size, num_steps, use_checkpoint, lifecycle, err,
                   joinWaiting, groupFormed, pg, destroyCount, trainer, batch,
                   stepsDone, gradSent, finalFile>>
    /\ UNCHANGED <<master_port, ddp_backend, joinArgs>>
    /\ UNCHANGED trainedOn
    /\ UNCHANGED <<gradReduced, lossReduced>>

\* DDPTrainer.print_log after dist.all_reduce returned: divide by
\* self.world_size and call super().print_log with the two averages; the
\* checkpoint hook of the loop follows.
PrintLogReturn(r) ==
    /\ pc[r] = "ALL_REDUCE"
    /\ AllContributed(lossSent, Len(lossSent[r]))
    /\ CallComplete(r)
    /\ \E sum \in Delivered(lossSent, lossReduced, Len(lossSent[r])) :
          /\ lossReduced' = Deliver(lossReduced, Len(lossSent[r]), sum)
          /\ LET reduce_tensor == Average(sum, trainer[r].world_size)
             IN  logged' = [logged EXCEPT ![r] = Append(@, reduce_tensor)]
    /\ BasePrintLog(r, printLogCalls[r])
    /\ CheckpointHook(r)
    /\ UNCHANGED <<world_size, num_steps, use_checkpoint, lifecycle, err,
                   joinWaiting, groupFormed, pg, destroyCount, trainer, batch,
                   stepsDone, gradSent, lossSent, printLogCalls, collectives,
                   finalFile>>
    /\ UNCHANGED <<master_port, ddp_backend, joinArgs>>
    /\ UNCHANGED trainedOn
    /\ UNCHANGED gradReduced
    /\ UNCHANGED completed

\* timeout=timedelta(seconds=30) of init_process_group is the time a rank
\* waits inside any collective call of the group: when it elapses before the
\* call has completed, a peer being late or gone, the call raises and the
\* error leaves run().
CollectiveTimeout(r) ==
    /\ pc[r] \in Blocking
    /\ ~CallComplete(r)
    /\ Fail(r, "CollectiveTimeout")
    /\ UNCHANGED <<world_size, num_steps, use_checkpoint, lifecycle, joinWaiting,
                   groupFormed, pg, destroyCount, trainer, batch, stepsDone,
                   gradSent, lossSent, logged, logLines, printLogCalls,
                   collectives, writeCount, writers, finalFile>>
    /\ UNCHANGED <<master_port, ddp_backend, joinArgs, storeOps>>
    /\ UNCHANGED trainedOn
    /\ UNCHANGED <<gradReduced, lossReduced>>
    /\ UNCHANGED completed

\* mp.spawn(run, ..., join=True) of main: the parent waits for the workers,
\* and once one of them has exited with an error it terminates those still
\* running, wherever they are in run().
SpawnTerminate(r) ==
    /\ \E s \in Ranks : pc[s] = "FAILED"
    /\ pc[r] \notin {"FAILED", "TORN_DOWN"}
    /\ Fail(r, "Terminated")
    /\ joinWaiting' = IF groupFormed THEN joinWaiting ELSE joinWaiting \ {r}
    /\ UNCHANGED <<world_size, num_steps, use_checkpoint, lifecycle, groupFormed,
                   pg, destroyCount, trainer, batch, stepsDone, gradSent, lossSent,
                   logged, logLines, printLogCalls, collectives, writeCount,
                   writers, finalFile>>
    /\ UNCHANGED <<master_port, ddp_backend, joinArgs, storeOps>>
    /\ UNCHANGED trainedOn
    /\ UNCHANGED <<gradReduced, lossReduced>>
    /\ UNCHANGED completed

\* ------------------------------------------------- _ddp_training, the end
\* The loop ends, training.training returns, and `if training.rank == 0:`
\* the leader starts writing the final checkpoint; every other rank returns
\* to run().
FinalGate(r) ==
    /\ pc[r] = "TRAINING"
    /\ stepsDone[r] = num_steps
    /\ IF IsLeader(trainer[r].rank)
       THEN /\ writeCount' = save_checkpoint(writeCount, trainer[r], 0, "final")
            /\ writers' = IF writeCount' # writeCount THEN writers \cup {r} ELSE writers
            /\ finalFile' = IF writeCount' # writeCount THEN "partial" ELSE finalFile
            /\ storeOps' = IF writeCount' # writeCount
                           THEN storeOps \cup {LeaderWrite(trainer[r], r, "final")}
                           ELSE storeOps
            /\ pc' = [pc EXCEPT ![r] = "SAVING"]
       ELSE /\ pc' = [pc EXCEPT ![r] = "RETURNED"]
            /\ UNCHANGED <<writeCount, writers, finalFile, storeOps>>
    /\ UNCHANGED <<world_size, num_steps, use_checkpoint, lifecycle, err,
                   joinWaiting, groupFormed, pg, destroyCount, trainer, batch,
                   stepsDone, gradSent, lossSent, logged, logLines, printLogCalls,
                   collectives>>
    /\ UNCHANGED <<master_port, ddp_backend, joinArgs>>
    /\ UNCHANGED trainedOn
    /\ UNCHANGED <<gradReduced, lossReduced>>
    /\ UNCHANGED completed

\* The write of the final checkpoint completes (or raises), the two prints
\* follow and _ddp_training returns.
FinalSaveDone(r) ==
    /\ pc[r] = "SAVING"
    /\ \/ /\ finalFile' = "complete"
          /\ pc' = [pc EXCEPT ![r] = "SAVED"]
          /\ Enter(r, "SAVED")
          /\ UNCHANGED err
       \/ /\ Fail(r, "SaveError")
          /\ UNCHANGED <<finalFile, lifecycle>>
    /\ UNCHANGED <<world_size, num_steps, use_checkpoint, joinWaiting, groupFormed,
                   pg, destroyCount, trainer, batch, stepsDone, gradSent, lossSent,
                   logged, logLines, printLogCalls, collectives, writeCount,
                   writers>>
    /\ UNCHANGED <<master_port, ddp_backend, joinArgs, storeOps>>
    /\ UNCHANGED trainedOn
    /\ UNCHANGED <<gradReduced, lossReduced>>
    /\ UNCHANGED completed

\* run line 89 is reached as soon as _ddp_training has returned
TeardownAfterLeader(r) == finalFile = "complete"

TeardownReady(r) == TRUE

\* dist.destroy_process_group()
Destroy(r) ==
    /\ pc[r] \in {"SAVED", "RETURNED"}
    /\ TeardownReady(r)
    /\ pg' = [pg EXCEPT ![r] = "destroyed"]
    /\ destroyCount' = [destroyCount EXCEPT ![r] = @ + 1]
    /\ pc' = [pc EXCEPT ![r] = "TORN_DOWN"]
    /\ Enter(r, "TORN_DOWN")
    /\ UNCHANGED <<world_size, num_steps, use_checkpoint, err, joinWaiting,
                   groupFormed, trainer, batch, stepsDone, gradSent, lossSent,
                   logged, logLines, printLogCalls, collectives, writeCount,
                   writers, finalFile>>
    /\ UNCHANGED <<master_port, ddp_backend, joinArgs, storeOps>>
    /\ UNCHANGED trainedOn
    /\ UNCHANGED <<gradReduced, lossReduced>>
    /\ UNCHANGED completed

\* ------------------------------------------------------------------- Spec
Next ==
    \E r \in Ranks :
        \/ JoinCall(r)
        \/ JoinReturn(r)
        \/ JoinTimeout(r)
        \/ SetupDevice(r)
        \/ SetupGenerator(r)
        \/ SetupTraining(r)
        \/ TrainBatch(r)
        \/ TrainError(r)
        \/ GradSync(r)
        \/ PrintLogCall(r)
        \/ PrintLogReturn(r)
        \/ CollectiveTimeout(r)
        \/ SpawnTerminate(r)
        \/ FinalGate(r)
        \/ FinalSaveDone(r)
        \/ Destroy(r)

Spec == Init /\ [][Next]_vars

\* ------------------------------------------------------ runs without failure
\* _setup_training and the final save when nothing raises
SetupDeviceOk(r) == SetupDevice(r) /\ err'[r] = "none"

SetupTrainingOk(r) == SetupTraining(r) /\ err'[r] = "none"

FinalSaveOk(r) == FinalSaveDone(r) /\ err'[r] = "none"

\* No rendezvous or collective timeout, no error in setup, training or save.
NextNoFailure ==
    \E r \in Ranks :
        \/ JoinCall(r)
        \/ JoinReturn(r)
        \/ SetupDeviceOk(r)
        \/ SetupGenerator(r)
        \/ SetupTrainingOk(r)
        \/ TrainBatch(r)
        \/ GradSync(r)
        \/ PrintLogCall(r)
        \/ PrintLogReturn(r)
        \/ FinalGate(r)
        \/ FinalSaveOk(r)
        \/ Destroy(r)

\* Port and backend take part in no step after the join; the runs of one
\* launch configuration are followed.
InitNoFailure == Init /\ master_port = 29500 /\ ddp_backend = "nccl"

\* Every worker is a process of its own that keeps running: a step that can be
\* taken is eventually taken.
SpecNoFailure ==
    InitNoFailure /\ [][NextNoFailure]_vars /\ WF_vars(NextNoFailure)

\* ---------------------------------------------- the metric reduction alone
\* One logging event with losses that are not small integers: every rank has
\* completed the step's backward pass and is about to call print_log.
\* 1.0000001 = (2^23 + 1) * 2^-23, 1.0000002 = (2^23 + 2) * 2^-23 and
\* 1.000001 = (2^23 + 8) * 2^-23.
ReduceLosses ==
    { <<FromInt(1), FromInt(3)>>,
      <<[m |-> Pow2(23) + 1, e |-> -23], FromInt(3)>>,
      <<[m |-> Pow2(23) + 2, e |-> -23], [m |-> Pow2(23) + 8, e |-> -23]>>,
      <<[m |-> Pow2(23) + 8, e |-> -23], FromInt(3)>> }

ReduceBatches ==
    { [grad |-> FromInt(1), d_loss |-> l[1], g_loss |-> l[2]] : l \in ReduceLosses }

InitReduce ==
    /\ world_size \in 1..MaxReduceWorld
    /\ num_steps = 1
    /\ use_checkpoint = FALSE
    /\ pc = [r \in Ranks |-> "PRINT_LOG"]
    /\ lifecycle = [r \in Ranks |->
                      <<"INIT", "JOINED", "DEVICE_BOUND", "REPLICATED", "TRAINING">>]
    /\ err = [r \in Ranks |-> "none"]
    /\ joinWaiting = Ranks
    /\ groupFormed = TRUE
    /\ pg = [r \in Ranks |-> "live"]
    /\ destroyCount = [r \in Ranks |-> 0]
    /\ gradSent = [r \in Ranks |-> << <<FromInt(1)>> >>]
    /\ trainer = [r \in Ranks |->
                    [set_ddp_framework(set_device(TrainerInit(Opt), r))
                       EXCEPT !.params = OptimizerStep(InitialParams, <<FromInt(1)>>)]]
    /\ \E a, b \in ReduceBatches : \E c \in 0..world_size :
          batch = [r \in Ranks |-> IF r < c THEN a ELSE b]
    /\ stepsDone = [r \in Ranks |-> 1]
    /\ lossSent = [r \in Ranks |-> <<>>]
    /\ logged = [r \in Ranks |-> <<>>]
    /\ logLines = {}
    /\ printLogCalls = [r \in Ranks |-> 0]
    /\ collectives = [r \in Ranks |-> <<"ddp_sync", "ddp_sync", "grad">>]
    /\ writeCount = [w \in {"save", "manage", "final"} \X (0..(MaxSteps + 1)) |-> 0]
    /\ writers = {}
    /\ finalFile = "absent"
    /\ master_port = 29501
    /\ ddp_backend = "gloo"
    /\ joinArgs = [r \in Ranks |-> <<JoinArgs(RunArgs(r))>>]
    /\ storeOps = {}
    /\ trainedOn = [r \in Ranks |-> DdpTrainingArgs(RunArgs(r))]
    /\ gradReduced \in {<<sum>> : sum \in AllReduceSums(gradSent, 1)}
    /\ lossReduced = <<>>
    /\ completed = 3

NextReduce ==
    \E r \in Ranks :
        \/ PrintLogCall(r)
        \/ PrintLogReturn(r)

SpecReduce == InitReduce /\ [][NextReduce]_vars

\* ------------------------------------------------------------- properties
Entered(r, st) == \E i \in 1..Len(lifecycle[r]) : lifecycle[r][i] = st

Exited(r) == pc[r] \in {"FAILED", "TORN_DOWN"}

\* C1: every worker that has joined the process group destroys it exactly
\* once before it exits, on every exit path (normal or failing).
TeardownOnEveryExit ==
    \A r \in Ranks : (Exited(r) /\ Entered(r, "JOINED")) => destroyCount[r] = 1

\* C2: after each completed optimizer step the model parameters of all ranks
\* are identical: ranks that have completed the same number of steps hold the
\* same parameters.
ReplicasIdentical ==
    \A r, s \in Ranks :
        (Entered(r, "TRAINING") /\ Entered(s, "TRAINING")
           /\ stepsDone[r] = stepsDone[s])
        => trainer[r].params = trainer[s].params

ReplicasIdenticalWitness ==
    \E r, s \in Ranks :
        /\ stepsDone[r] = MaxSteps /\ stepsDone[s] = MaxSteps
        /\ gradSent[r] # gradSent[s]
        /\ gradSent[r][1] # gradSent[r][2]
        /\ trainer[r].params = trainer[s].params

IsPrefix(a, b) == Len(a) <= Len(b) /\ \A i \in 1..Len(a) : a[i] = b[i]

\* C3: collective calls are never behind the leader gate: every print_log call
\* issues exactly one all_reduce on every rank, the leader-only operations
\* issue none, and the ranks issue the same collective calls in the same order.
CollectivesNeverGated ==
    /\ \A r \in Ranks :
          /\ Len(lossSent[r]) = printLogCalls[r]
          /\ Len(collectives[r]) = Len(gradSent[r]) + printLogCalls[r]
                                    + (IF Len(trainer[r].ddp_steps) < 2
                                       THEN Len(trainer[r].ddp_steps) ELSE 2)
    /\ \A r, s \in Ranks :
          IsPrefix(collectives[r], collectives[s])
            \/ IsPrefix(collectives[s], collectives[r])

CollectivesNeverGatedWitness ==
    \E r \in Ranks :
        /\ r # 0
        /\ writeCount[<<"save", 1>>] = 1
        /\ writeCount[<<"final", 0>>] = 1
        /\ printLogCalls[r] = MaxSteps
        /\ collectives[r] = collectives[0]
        /\ Len(collectives[0]) = 2 * MaxSteps + 2

\* the integer a float with an integer value stands for
IntOf(f) == IF f.e >= 0 THEN f.m * Pow2(f.e) ELSE f.m \div Pow2(-f.e)

\* f is S / n (S an integer, f.e <= 0) up to the two roundings of
\* S * float32(1 / n): the reciprocal is off by at most half a unit in its
\* last place, and so is the product
IsRoundedQuotient(f, S, n) == 2 * Abs(f.m * n - S * Pow2(-f.e)) <= 3 * n

RECURSIVE ExactSum(_, _, _, _)
ExactSum(sent, k, i, r) ==
    IntOf(sent[r][k][i]) + (IF r = 0 THEN 0 ELSE ExactSum(sent, k, i, r - 1))

\* C4: for each logging event the pair every rank passes on to the log is the
\* pair of means (sum of d over ranks / world_size, sum of g / world_size) in
\* float32, from one all-reduce of the packed pair, identical on all ranks:
\* the mean up to the rounding of float32(1 / world_size) and of the product
\* with it; with 2 workers, (1,2) and (3,4) give (2,3).
ReducedLossIsMean ==
    \A r \in Ranks : \A k \in 1..Len(logged[r]) :
        /\ Len(lossSent[r][k]) = 2
        /\ \A i \in 1..2 :
              IsRoundedQuotient(logged[r][k][i],
                                ExactSum(lossSent, k, i, world_size - 1),
                                world_size)
        /\ \A s \in Ranks : Len(logged[s]) >= k => logged[s][k] = logged[r][k]
        /\ (/\ world_size = 2
            /\ lossSent[0][k] = <<FromInt(1), FromInt(2)>>
            /\ lossSent[1][k] = <<FromInt(3), FromInt(4)>>)
           => logged[r][k] = <<FromInt(2), FromInt(3)>>

ReducedLossIsMeanWitness ==
    /\ world_size = 2
    /\ \A r \in Ranks : Len(logged[r]) >= 1
    /\ lossSent[0][1] = <<FromInt(1), FromInt(2)>>
    /\ lossSent[1][1] = <<FromInt(3), FromInt(4)>>
    /\ logged[0][1] = <<FromInt(2), FromInt(3)>>
    /\ logged[1][1] = <<FromInt(2), FromInt(3)>>

IdenticalInputs(r, k) == \A s \in Ranks : lossSent[s][k] = lossSent[r][k]

\* j * |x| is a float32 value
ExactMultiple(x, j) ==
    LET f == RoundMag(j * Abs(x.m), 0) IN f.m * Pow2(f.e) = j * Abs(x.m)

\* C5 as stated: when all world_size ranks contribute the same value x to a
\* logging event, the reduced and averaged value on every rank is x.
ReduceIdempotent ==
    \A r \in Ranks : \A k \in 1..Len(logged[r]) :
        IdenticalInputs(r, k) => logged[r][k] = lossSent[r][k]

\* float32(1 / n) is 1 / n, or differs from it by at most 2^-25 of it: the
\* product of an exact sum n * x with it is then less than half a unit in the
\* last place away from x.
ReciprocalIsClose(n) ==
    LET r == FDivInt(FromInt(1), n)
    IN  \/ n * r.m = Pow2(-r.e)
        \/ /\ -r.e >= 25
           /\ Abs(n * r.m - Pow2(-r.e)) <= Pow2(-r.e - 25)

\* C5 amended: when all ranks contribute the same value x, every rank observes
\* the same value, and it is x whenever the multiples 2x, ..., world_size * x
\* are float32 values (the sum is then exact) and float32(1 / world_size) is
\* close enough to 1 / world_size (it is for world sizes 1 to 6 and 8, it is
\* not for 7).
ReduceIdempotentWhenExact ==
    \A r \in Ranks : \A k \in 1..Len(logged[r]) :
        IdenticalInputs(r, k) =>
            /\ \A s \in Ranks : Len(logged[s]) >= k => logged[s][k] = logged[r][k]
            /\ (/\ \A i \in 1..2 : \A j \in 1..world_size :
                      ExactMultiple(lossSent[r][k][i], j)
                /\ ReciprocalIsClose(world_size))
               => logged[r][k] = lossSent[r][k]

ReduceIdempotentWitness ==
    /\ world_size >= 6
    /\ \A r \in Ranks :
          /\ Len(logged[r]) = 1
          /\ lossSent[r][1] = <<[m |-> Pow2(23) + 8, e |-> -23], FromInt(3)>>
          /\ logged[r][1] = lossSent[r][1]

\* C6: only rank 0 passes the leader gate, and each leader-only durable side
\* effect (periodic save, manage_checkpoints, final save) is executed at most
\* once per logical event across the group, never by a rank other than 0.
LeaderOnlyWrites ==
    /\ \A r \in Ranks : IsLeader(trainer[r].rank) => r = 0
    /\ writers \subseteq {0}
    /\ \A w \in DOMAIN writeCount : writeCount[w] <= 1

LeaderOnlyWritesWitness ==
    /\ world_size = MaxWorldSize
    /\ \A r \in Ranks : pc[r] \in {"SAVED", "RETURNED", "TORN_DOWN"}
    /\ \A r \in Ranks : stepsDone[r] = MaxSteps
    /\ writeCount[<<"save", 1>>] = 1
    /\ writeCount[<<"manage", 1>>] = 1
    /\ writeCount[<<"final", 0>>] = 1
    /\ writers = {0}

\* C7: the progress print is leader-gated: only rank 0 emits the log line, so
\* each logging event produces exactly one log line across the group.
OneLogLinePerEvent ==
    /\ \A l \in logLines : l.rank = 0
    /\ \A k \in 1..MaxSteps :
          Cardinality({l \in logLines : l.event = k}) <= 1

\* C8: join is all-or-nothing: no worker is past _setup unless all world_size
\* workers have called join, a worker whose join timed out never proceeds to
\* device binding or training, and once all have called it no join fails.
JoinAllOrNothing ==
    /\ \A r \in Ranks :
          pg[r] # "none" =>
              \A s \in Ranks : /\ pc[s] # "INIT"
                               /\ Len(joinArgs[s]) = 1
                               /\ err[s] # "RendezvousTimeout"
    /\ \A r \in Ranks :
          err[r] = "RendezvousTimeout" =>
              /\ lifecycle[r] = <<"INIT">>
              /\ pg[r] = "none"
              /\ trainer[r].rank = -1
    /\ groupFormed => \A r \in Ranks : err[r] # "RendezvousTimeout"

JoinAllOrNothingWitness ==
    /\ world_size = 3
    /\ Cardinality({r \in Ranks : err[r] = "RendezvousTimeout"}) = 2
    /\ \E r \in Ranks : pc[r] = "INIT"

\* the lifecycle states that may directly follow st
Successors(st) ==
    CASE st = "INIT" -> {"JOINED"}
      [] st = "JOINED" -> {"DEVICE_BOUND"}
      [] st = "DEVICE_BOUND" -> {"REPLICATED"}
      [] st = "REPLICATED" -> {"RESUMED", "TRAINING"}
      [] st = "RESUMED" -> {"TRAINING"}
      [] st = "TRAINING" -> {"SAVED", "TORN_DOWN"}
      [] st = "SAVED" -> {"TORN_DOWN"}
      [] st = "TORN_DOWN" -> {}

\* C9: every worker moves through INIT, JOINED, DEVICE_BOUND, REPLICATED,
\* optionally RESUMED, TRAINING, optionally SAVED, TORN_DOWN in this order,
\* never skipping a mandatory state or going back; RESUMED is entered iff a
\* checkpoint was requested, SAVED only by rank 0.
LifecycleOrder ==
    \A r \in Ranks :
        /\ lifecycle[r][1] = "INIT"
        /\ \A i \in 1..(Len(lifecycle[r]) - 1) :
              lifecycle[r][i + 1] \in Successors(lifecycle[r][i])
        /\ Entered(r, "TRAINING") => (Entered(r, "RESUMED") <=> use_checkpoint)
        /\ Entered(r, "RESUMED") => use_checkpoint
        /\ Entered(r, "SAVED") => r = 0
        /\ pc[r] = "TORN_DOWN" <=> Entered(r, "TORN_DOWN")
        /\ pc[r] \in {"TRAINING", "BACKWARD", "PRINT_LOG", "ALL_REDUCE", "SAVING",
                      "RETURNED"}
           => lifecycle[r][Len(lifecycle[r])] = "TRAINING"

LifecycleOrderWitness ==
    /\ world_size >= 2
    /\ lifecycle[0] = <<"INIT", "JOINED", "DEVICE_BOUND", "REPLICATED", "RESUMED",
                        "TRAINING", "SAVED", "TORN_DOWN">>
    /\ lifecycle[1] = <<"INIT", "JOINED", "DEVICE_BOUND", "REPLICATED", "RESUMED",
                        "TRAINING", "TORN_DOWN">>

\* C10: no synchronization follows the leader-gated checkpoint write: a rank
\* that has returned from training can destroy its process group whatever the
\* leader's write is doing, so a non-leader can be torn down while rank 0 is
\* still writing the final checkpoint.
NoSyncAfterLeaderWrite ==
    \A r \in Ranks : pc[r] = "RETURNED" => ENABLED Destroy(r)

NonLeaderGoneWhileLeaderWrites ==
    \E r \in Ranks :
        /\ r # 0
        /\ pc[r] = "TORN_DOWN"
        /\ pg[r] = "destroyed"
        /\ pc[0] = "SAVING"
        /\ finalFile = "partial"

\* ------------------------------------------- set_ddp_framework, the store
WorkerLoads(r) == {o \in storeOps : o.op = "load" /\ o.rank = r}

LeaderWrites == {o \in storeOps : o.op \in {"save", "manage", "final"}}

\* C11: optimizer state that exists before wrapping is preserved by
\* set_ddp_framework: once a worker's models are wrapped, its optimizers hold
\* the state the parent process handed over (the checkpoint's state when the
\* parent loaded one, fresh state otherwise) and are bound to the parameters of
\* the wrapped models.
OptimizerStatePreserved ==
    \A r \in Ranks :
        Entered(r, "REPLICATED")
        => /\ trainer[r].extracted = ParentLoad(TrainerInit(Opt), use_checkpoint).opt_state
           /\ trainer[r].opt_state = trainer[r].extracted
           /\ trainer[r].opt_bound = "wrapped"

\* A worker right after set_ddp_framework (its own load then failed), holding
\* the state the parent had loaded.
OptimizerStatePreservedWitness ==
    \E r \in Ranks :
        /\ use_checkpoint
        /\ err[r] = "CheckpointNotFound"
        /\ Entered(r, "REPLICATED")
        /\ trainer[r].opt_state = CheckpointOptState
        /\ trainer[r].opt_state # FreshOptState
        /\ trainer[r].opt_bound = "wrapped"

\* C12: every checkpoint-store operation works on unwrapped models only: the
\* leader's saves get the inner models, and every resume load is applied to
\* an unwrapped model.
StoreOnUnwrappedOnly == \A o \in storeOps : ~o.wrapped

\* C13: a checkpoint resume failure is fatal and surfaces before training: a
\* rank whose load_checkpoint failed never enters the training loop, never
\* performs an optimizer step, and does not load again.
ResumeFailureFatal ==
    /\ [](\A r \in Ranks :
             err[r] = "CheckpointNotFound"
             => /\ pc[r] = "FAILED"
                /\ ~Entered(r, "TRAINING")
                /\ stepsDone[r] = 0
                /\ gradSent[r] = <<>>
                /\ trainer[r].params = ParentLoad(TrainerInit(Opt), use_checkpoint).params
                /\ Cardinality(WorkerLoads(r)) = 1)
    /\ [][\A r \in Ranks :
             err[r] = "CheckpointNotFound"
             => /\ pc'[r] = pc[r]
                /\ trainer'[r] = trainer[r]
                /\ {o \in storeOps' : o.op = "load" /\ o.rank = r} = WorkerLoads(r)]_vars

\* One rank failed its load and stays failed while another one, whose load
\* succeeded, is in the training loop.
ResumeFailureFatalWitness ==
    \E r, s \in Ranks :
        /\ err[r] = "CheckpointNotFound"
        /\ pc[r] = "FAILED"
        /\ Cardinality(WorkerLoads(r)) = 1
        /\ Entered(s, "RESUMED")
        /\ pc[s] \in {"BACKWARD", "FAILED"}
        /\ Len(gradSent[s]) = 1

\* C14 as stated: every read of the checkpoint file by a worker happens before
\* that worker joins the process group.
ReadsBeforeJoin ==
    \A o \in storeOps : (o.op = "load" /\ o.rank \in Ranks) => ~o.joined

\* C14, amended: the parent reads the checkpoint before the workers exist;
\* a worker reads it at most once, only when resume was requested, after it
\* has joined the process group and its models were wrapped, and before its
\* first training step; nothing reads it later in the run.
ReadsBeforeTraining ==
    /\ \A o \in storeOps :
          o.op = "load"
          => /\ use_checkpoint
             /\ o.steps = 0
             /\ o.rank = -1 => ~o.joined
             /\ o.rank \in Ranks
                => (o.joined /\ o.wrapped /\ Len(joinArgs[o.rank]) = 1)
    /\ \A r \in Ranks :
          /\ Cardinality(WorkerLoads(r)) <= 1
          /\ Entered(r, "TRAINING") /\ use_checkpoint /\ err[r] # "CheckpointNotFound"
             => Cardinality(WorkerLoads(r)) = 1

ReadsBeforeTrainingWitness ==
    \E o \in storeOps :
        /\ o.op = "load"
        /\ o.rank \in Ranks
        /\ o.joined
        /\ stepsDone[o.rank] = num_steps
        /\ num_steps > 0
        /\ Cardinality(WorkerLoads(o.rank)) = 1

\* number of times step x occurs in a trace of set_ddp_framework
Occurrences(seq, x) == Cardinality({i \in 1..Len(seq) : seq[i] = x})

Pos(seq, x) == CHOOSE i \in 1..Len(seq) : seq[i] = x

\* C15: a worker's identity is assigned once and never changes: from
\* set_device on, rank and device keep their value through wrapping, resume,
\* training, logging, checkpoint calls and teardown, and the models are moved
\* to the device and wrapped exactly once.
IdentityAssignedOnce ==
    /\ [](\A r \in Ranks :
             /\ Entered(r, "DEVICE_BOUND")
                => trainer[r].rank = r /\ trainer[r].device = r
             /\ Entered(r, "REPLICATED")
                => /\ trainer[r].wrapped = WrappedOnce
                   /\ Occurrences(trainer[r].ddp_steps, "to_device") = 1
                   /\ Occurrences(trainer[r].ddp_steps, "wrap_generator") = 1
                   /\ Occurrences(trainer[r].ddp_steps, "wrap_discriminator") = 1
             /\ ~Entered(r, "REPLICATED")
                => /\ trainer[r].wrapped["discriminator"] = 0
                   /\ trainer[r].wrapped["generator"] <= 1
                   /\ trainer[r].ddp_steps \in {<<>>, <<"to_device">>,
                                                <<"to_device", "wrap_generator">>})
    /\ [][\A r \in Ranks :
             trainer[r].rank # -1
             => /\ trainer'[r].rank = trainer[r].rank
                /\ trainer'[r].device = trainer[r].device
                /\ \A m \in Models :
                      trainer[r].wrapped[m] > 0
                      => trainer'[r].wrapped[m] = trainer[r].wrapped[m]
                /\ IsWrapped(trainer[r])
                   => trainer'[r].ddp_steps = trainer[r].ddp_steps]_vars

IdentityAssignedOnceWitness ==
    \E r \in Ranks :
        /\ r > 0
        /\ pc[r] = "TORN_DOWN"
        /\ num_steps >= 2
        /\ stepsDone[r] = num_steps
        /\ printLogCalls[r] = num_steps
        /\ trainer[r].rank = r
        /\ trainer[r].device = r
        /\ trainer[r].wrapped = WrappedOnce

ExtractBeforeWrap ==
    \A r \in Ranks :
        Entered(r, "REPLICATED")
        => /\ Pos(trainer[r].ddp_steps, "extract_state") < Pos(trainer[r].ddp_steps, "wrap_generator")
           /\ Pos(trainer[r].ddp_steps, "wrap_discriminator") < Pos(trainer[r].ddp_steps, "new_optimizers")
           /\ Pos(trainer[r].ddp_steps, "new_optimizers") < Pos(trainer[r].ddp_steps, "load_state")

\* C18, amended: set_ddp_framework first moves and wraps the models, then
\* extracts the state dicts of the optimizers it still holds, then builds
\* fresh optimizers on the wrapped parameters, and only then reloads the
\* extracted state into them; each step happens once.
WrapBeforeExtract ==
    \A r \in Ranks :
        Entered(r, "REPLICATED")
        => /\ \A x \in {"to_device", "wrap_generator", "wrap_discriminator",
                         "extract_state", "new_optimizers", "load_state"} :
                 Occurrences(trainer[r].ddp_steps, x) = 1
           /\ Pos(trainer[r].ddp_steps, "to_device") < Pos(trainer[r].ddp_steps, "wrap_generator")
           /\ Pos(trainer[r].ddp_steps, "wrap_generator") < Pos(trainer[r].ddp_steps, "wrap_discriminator")
           /\ Pos(trainer[r].ddp_steps, "wrap_discriminator") < Pos(trainer[r].ddp_steps, "extract_state")
           /\ Pos(trainer[r].ddp_steps, "extract_state") < Pos(trainer[r].ddp_steps, "new_optimizers")
           /\ Pos(trainer[r].ddp_steps, "new_optimizers") < Pos(trainer[r].ddp_steps, "load_state")
           /\ trainer[r].opt_bound = "wrapped"

WrapBeforeExtractWitness ==
    \E r \in Ranks :
        /\ Len(trainer[r].ddp_steps) = 6
        /\ trainer[r].wrapped = WrappedOnce
        /\ trainer[r].extracted = CheckpointOptState
        /\ pc[r] = "TRAINING"

\* C19 as stated: every rank's resume read completes before any checkpoint
\* write by the leader, the final save included.
ResumeBeforeAnyWrite ==
    use_checkpoint => \A o \in LeaderWrites : o.resumed = Ranks

\* C19, amended: when the training loop runs at least one step, every rank's
\* resume read has completed before any checkpoint write by the leader: the
\* gradient all-reduce of the first step stands between them.
ResumeBeforeWriteWhenTraining ==
    (use_checkpoint /\ num_steps >= 1) => \A o \in LeaderWrites : o.resumed = Ranks

ResumeBeforeWriteWhenTrainingWitness ==
    /\ use_checkpoint
    /\ num_steps >= 1
    /\ world_size >= 2
    /\ \E o \in LeaderWrites : o.op = "save" /\ o.rank = 0 /\ o.resumed = Ranks
    /\ \E o \in LeaderWrites : o.op = "final"

\* C20: the divisor used to average metrics equals the size of the joined
\* process group: on every rank that has called init_process_group, so at
\* every print_log call, self.world_size of the trainer equals the world_size
\* of that call.
DivisorIsGroupSize ==
    \A r \in Ranks :
        /\ \A i \in 1..Len(joinArgs[r]) :
              trainer[r].world_size = joinArgs[r][i].world_size
        /\ printLogCalls[r] > 0 => Len(joinArgs[r]) = 1

DivisorIsGroupSizeWitness ==
    \E r \in Ranks :
        /\ world_size >= 3
        /\ pc[r] = "ALL_REDUCE"
        /\ printLogCalls[r] = 2
        /\ trainer[r].world_size = world_size
        /\ joinArgs[r][1].world_size = world_size

\* C21: the positional arguments of mp.spawn match run's signature: on every
\* worker that entered training, training.training was called on the trainer
\* and was given the dataset loaded by main.
SpawnArgsMatchSignature ==
    \A r \in Ranks :
        trainedOn[r] # NotStarted
        => trainedOn[r] = [training |-> "trainer", dataset |-> "dataset"]

\* Rank r waits inside a collective for the contribution of rank s.
WaitsFor(r, s) ==
    \/ pc[r] = "WRAPPING" /\ ~DdpEntered(s, Len(collectives[r]))
    \/ pc[r] = "BACKWARD" /\ Len(gradSent[s]) < Len(gradSent[r])
    \/ pc[r] = "ALL_REDUCE" /\ Len(lossSent[s]) < Len(lossSent[r])

\* C22: absent failures, with the same number of training steps and logging
\* events on all ranks, no worker blocks forever: every worker eventually
\* returns from training and destroys its process group, and a rank that
\* waits at a collective never waits for a rank that is in, or past, the
\* leader-gated final write; it waits for ranks still on their way to the
\* same collective.
NoWorkerBlocksForever ==
    /\ <>(\A r \in Ranks : pc[r] = "TORN_DOWN" /\ destroyCount[r] = 1)
    /\ [](\A r, s \in Ranks :
             WaitsFor(r, s)
             => pc[s] \in {"JOINING", "JOINED", "WRAPPING", "TRAINING",
                           "BACKWARD", "PRINT_LOG", "ALL_REDUCE"})

\* A run of several ranks with periodic leader writes and the final save, all
\* ranks torn down.
NoWorkerBlocksForeverWitness ==
    /\ world_size >= 2
    /\ num_steps >= 2
    /\ \A r \in Ranks : pc[r] = "TORN_DOWN" /\ stepsDone[r] = num_steps
    /\ finalFile = "complete"
    /\ \E o \in LeaderWrites : o.op = "save" /\ o.steps = 1

====
